---------------------------- MODULE Spec2Model ----------------------------
(***************************************************************************)
(* A model of the vpncloud cloud engine (src/src/cloud.rs): the PeerList,  *)
(* the GenericCloud message handlers, housekeeping, the reconnect list and *)
(* the event loop of run.                                                  *)
(*                                                                         *)
(* Conventions.                                                            *)
(*  - A HashMap is a function whose DOMAIN is the key set (Put / Del).     *)
(*  - A Vec is a sequence.                                                 *)
(*  - Time is in seconds.  The code only ever compares a Time field with   *)
(*    now() (<, <=, >) or sets it to now() + c, so every Time field is     *)
(*    kept as its offset from the current instant: now() is 0 (Now), a     *)
(*    positive field lies in the future, and when the clock advances by d  *)
(*    every field drops by d (Shift).  How long ago a past instant was     *)
(*    never matters, so a field more than a second in the past is held     *)
(*    at -1.                                                               *)
(*  - A handler that can fail with try! is an operator on a context        *)
(*    record [c, sent, res, ...]: c is the GenericCloud after the code     *)
(*    that ran, sent the datagrams handed to the socket so far, res is     *)
(*    "ok" or "err"; once res = "err" the remaining steps are skipped,     *)
(*    exactly as try! returns early.                                       *)
(*  - What the code cannot decide itself (whether send_to fails, whether   *)
(*    the device write fails, the iteration order of a HashMap, the        *)
(*    outcome of DNS) is an input of the action, drawn with \E.            *)
(***************************************************************************)
EXTENDS Integers, Sequences, FiniteSets, Bags, TLC

VARIABLES cloud, net, hist, loop, shared

vars == <<cloud, net, hist, loop, shared>>

(***************************************************************************)
(* Bounds of the model and configuration values.                           *)
(***************************************************************************)
\* util::now() of the current instant (Time fields are offsets from it)
Now == 0
\* the runs that advance the clock second by second last MaxTime seconds
MaxTime == 3
\* Config::peer_timeout, Config::switch_timeout, keepalive, beacon_interval
PeerTimeout == 1
SwitchTimeout == 2
Keepalive == 2
BeaconInterval == 2
\* the longest Peers list the environment injects
MaxPeersLen == 1
\* how often the engines are told to connect to each other
MaxDials == 2
\* how many names are put on the reconnect list
MaxReconnect == 1
\* how many nodes join the engine whose gossip is watched
MaxGossipPeers == 21
\* the datagrams the network holds in flight; one sent into a full network is lost
MaxInFlight == 3
\* the history counter of reconnect attempts stops counting here
MaxAttempts == 22
\* own_addresses (a Vec that only grows) is filled by the environment up to here
MaxOwn == 1

MAX_RECONNECT_INTERVAL == 3600
RESOLVE_INTERVAL == 300
STATS_INTERVAL == 60

\* the engines, their NodeIds and the socket address each is reached at
Node == {"A", "B"}
NodeIdOf(self) == IF self = "A" THEN "NA" ELSE "NB"
AddrOf(self) == IF self = "A" THEN "a1" ELSE "a2"
\* all socket addresses and node ids that occur
Addr == {"a1", "a2", "a3"}
NodeId == {"NA", "NB", "NC"}
\* inner-network addresses; a Range is announced as (base, prefix_len)
Inner == {"i1", "i2"}
Range == {[base |-> "i1", prefix_len |-> 24]}

(***************************************************************************)
(* HashMap helpers.                                                        *)
(***************************************************************************)
EmptyMap == [k \in {} |-> k]
Put(m, k, v) == [x \in (DOMAIN m) \cup {k} |-> IF x = k THEN v ELSE m[x]]
Del(m, k) == [x \in (DOMAIN m) \ {k} |-> m[x]]
DelAll(m, ks) == [x \in (DOMAIN m) \ ks |-> m[x]]
Elems(s) == {s[i] : i \in 1..Len(s)}
Min(a, b) == IF a < b THEN a ELSE b

\* all orderings of a finite set, as sequences without repetition
Orderings(S) ==
  {s \in [1..Cardinality(S) -> S] : \A i, j \in 1..Cardinality(S) : s[i] = s[j] => i = j}

(***************************************************************************)
(* PeerList (cloud.rs 41-192).                                             *)
(***************************************************************************)
PeerData(timeout, node_id, alt_addrs) ==
  [timeout |-> timeout, node_id |-> node_id, alt_addrs |-> alt_addrs]

PeerList_new == [peers |-> EmptyMap, nodes |-> EmptyMap, addresses |-> EmptyMap]

\* the addresses timeout() collects in del: the primaries whose expiry is before t
PeerList_expired(pl, t) == {a \in DOMAIN pl.peers : pl.peers[a].timeout < t}

\* timeout(): every record in del is removed from peers, its node id from nodes,
\* its primary and its alternates from addresses
PeerList_timeout(pl, t) ==
  LET del == PeerList_expired(pl, t)
      gone == del \cup UNION {Elems(pl.peers[a].alt_addrs) : a \in del}
  IN [peers |-> DelAll(pl.peers, del),
      nodes |-> DelAll(pl.nodes, {pl.peers[a].node_id : a \in del}),
      addresses |-> DelAll(pl.addresses, gone)]

PeerList_contains_addr(pl, addr) == addr \in DOMAIN pl.addresses

\* is_connected on a slice of socket addresses (resolve is the identity there)
PeerList_is_connected(pl, addrs) == \E i \in 1..Len(addrs) : PeerList_contains_addr(pl, addrs[i])

PeerList_contains_node(pl, node_id) == node_id \in DOMAIN pl.nodes

\* add(): nodes.insert always stores (node_id -> addr); only when the key was
\* absent are peers and addresses written
PeerList_add(pl, node_id, addr, t) ==
  IF node_id \notin DOMAIN pl.nodes
  THEN [peers |-> Put(pl.peers, addr, PeerData(t + PeerTimeout, node_id, <<>>)),
        nodes |-> Put(pl.nodes, node_id, addr),
        addresses |-> Put(pl.addresses, addr, node_id)]
  ELSE [pl EXCEPT !.nodes = Put(pl.nodes, node_id, addr)]

PeerList_refresh(pl, addr, t) ==
  IF addr \in DOMAIN pl.peers
  THEN [pl EXCEPT !.peers[addr].timeout = t + PeerTimeout]
  ELSE pl

\* make_primary without the early return for an address that is a primary
PeerList_make_primary_noguard(pl, node_id, addr) ==
  IF node_id \notin DOMAIN pl.nodes THEN pl
  ELSE LET old_addr == pl.nodes[node_id]
           nodes1 == Put(pl.nodes, node_id, addr)
       IN IF old_addr \notin DOMAIN pl.peers
          THEN [pl EXCEPT !.nodes = nodes1]
          ELSE LET peer == pl.peers[old_addr]
                   kept == SelectSeq(peer.alt_addrs, LAMBDA i : i # addr)
                   peer1 == [peer EXCEPT !.alt_addrs = Append(kept, old_addr)]
               IN [peers |-> Put(Del(pl.peers, old_addr), addr, peer1),
                   nodes |-> nodes1,
                   addresses |-> Put(pl.addresses, addr, node_id)]

\* make_primary that copies the record to addr and leaves the one at old_addr
PeerList_make_primary_keep(pl, node_id, addr) ==
  IF addr \in DOMAIN pl.peers THEN pl
  ELSE IF node_id \notin DOMAIN pl.nodes THEN pl
  ELSE LET old_addr == pl.nodes[node_id]
           nodes1 == Put(pl.nodes, node_id, addr)
       IN IF old_addr \notin DOMAIN pl.peers
          THEN [pl EXCEPT !.nodes = nodes1]
          ELSE LET peer == pl.peers[old_addr]
                   kept == SelectSeq(peer.alt_addrs, LAMBDA i : i # addr)
                   peer1 == [peer EXCEPT !.alt_addrs = Append(kept, old_addr)]
               IN [peers |-> Put(pl.peers, addr, peer1),
                   nodes |-> nodes1,
                   addresses |-> Put(pl.addresses, addr, node_id)]

\* make_primary without the retain() that drops addr from the alternates
PeerList_make_primary_noretain(pl, node_id, addr) ==
  IF addr \in DOMAIN pl.peers THEN pl
  ELSE IF node_id \notin DOMAIN pl.nodes THEN pl
  ELSE LET old_addr == pl.nodes[node_id]
           nodes1 == Put(pl.nodes, node_id, addr)
       IN IF old_addr \notin DOMAIN pl.peers
          THEN [pl EXCEPT !.nodes = nodes1]
          ELSE LET peer == pl.peers[old_addr]
                   peer1 == [peer EXCEPT !.alt_addrs = Append(peer.alt_addrs, old_addr)]
               IN [peers |-> Put(Del(pl.peers, old_addr), addr, peer1),
                   nodes |-> nodes1,
                   addresses |-> Put(pl.addresses, addr, node_id)]

PeerList_make_primary(pl, node_id, addr) ==
  IF addr \in DOMAIN pl.peers THEN pl
  ELSE IF node_id \notin DOMAIN pl.nodes THEN pl
  ELSE LET old_addr == pl.nodes[node_id]
           nodes1 == Put(pl.nodes, node_id, addr)
       IN IF old_addr \notin DOMAIN pl.peers
          THEN [pl EXCEPT !.nodes = nodes1]
          ELSE LET peer == pl.peers[old_addr]
                   kept == SelectSeq(peer.alt_addrs, LAMBDA i : i # addr)
                   peer1 == [peer EXCEPT !.alt_addrs = Append(kept, old_addr)]
               IN [peers |-> Put(Del(pl.peers, old_addr), addr, peer1),
                   nodes |-> nodes1,
                   addresses |-> Put(pl.addresses, addr, node_id)]

\* get_node_id is Some(n) exactly when addr is a key of addresses
PeerList_has_node_id(pl, addr) == addr \in DOMAIN pl.addresses
PeerList_get_node_id(pl, addr) == pl.addresses[addr]

\* as_vec(): the keys of addresses; the Vec's order is the map's iteration order
PeerList_as_vec(pl) == DOMAIN pl.addresses

PeerList_len(pl) == Cardinality(DOMAIN pl.peers)

\* remove that leaves the alternate addresses of the record in addresses
PeerList_remove_primary_only(pl, addr) ==
  IF addr \in DOMAIN pl.peers
  THEN LET data == pl.peers[addr]
       IN [peers |-> Del(pl.peers, addr),
           nodes |-> Del(pl.nodes, data.node_id),
           addresses |-> Del(pl.addresses, addr)]
  ELSE pl

PeerList_remove(pl, addr) ==
  IF addr \in DOMAIN pl.peers
  THEN LET data == pl.peers[addr]
       IN [peers |-> Del(pl.peers, addr),
           nodes |-> Del(pl.nodes, data.node_id),
           addresses |-> DelAll(pl.addresses, {addr} \cup Elems(data.alt_addrs))]
  ELSE pl


(***************************************************************************)
(* The forwarding table behind the Table trait.  Two maps: claims (ranges  *)
(* announced in a handshake, aged by peer_timeout) and the learned cache   *)
(* (host addresses seen in Data frames, aged by switch_timeout).  An entry *)
(* carries the socket address it was learned from and its expiry.          *)
(***************************************************************************)
Table_new == [claims |-> EmptyMap, cache |-> EmptyMap]

\* learn(range.base, Some(range.prefix_len), peer)
Table_learn_range(tb, range, peer, t) ==
  [tb EXCEPT !.claims = Put(tb.claims, range, [peer |-> peer, expires |-> t + PeerTimeout])]

\* learn(src, None, peer)
Table_learn_host(tb, addr, peer, t) ==
  [tb EXCEPT !.cache = Put(tb.cache, addr, [peer |-> peer, expires |-> t + SwitchTimeout])]

Table_remove_all(tb, peer) ==
  [claims |-> DelAll(tb.claims, {k \in DOMAIN tb.claims : tb.claims[k].peer = peer}),
   cache |-> DelAll(tb.cache, {k \in DOMAIN tb.cache : tb.cache[k].peer = peer})]

Table_housekeep(tb, t) ==
  [claims |-> DelAll(tb.claims, {k \in DOMAIN tb.claims : tb.claims[k].expires < t}),
   cache |-> DelAll(tb.cache, {k \in DOMAIN tb.cache : tb.cache[k].expires < t})]

\* the socket addresses the table's entries point to
Table_peers(tb) ==
  {tb.claims[k].peer : k \in DOMAIN tb.claims} \cup {tb.cache[k].peer : k \in DOMAIN tb.cache}

(***************************************************************************)
(* Messages (udpmessage::Message) and inner frames.                        *)
(***************************************************************************)
Init_msg(stage, node_id, ranges) ==
  [kind |-> "Init", stage |-> stage, node_id |-> node_id, ranges |-> ranges]
Peers_msg(peers) == [kind |-> "Peers", peers |-> peers]
Data_msg(frame) == [kind |-> "Data", frame |-> frame]
Close_msg == [kind |-> "Close"]

\* a frame the inner parser rejects, and the frames it accepts
Malformed == [src |-> "none", dst |-> "none"]
Frame == [src : Inner, dst : Inner]
P_parse_ok(frame) == frame # Malformed

(***************************************************************************)
(* GenericCloud (cloud.rs 205-274).  LocalAddrs are the two addresses      *)
(* address() returns for the sockets bound to 0.0.0.0 and ::, which run()  *)
(* pushes into own_addresses before the loop starts.                       *)
(***************************************************************************)
LocalAddrs == <<"0.0.0.0", "::">>

\* Config: where beacons are stored to and loaded from ("none", "file" or "cmd"
\* for a path that starts with '|'), and whether a stats file is configured
Config(beacon_store, beacon_load, stats_file) ==
  [beacon_store |-> beacon_store, beacon_load |-> beacon_load, stats_file |-> stats_file]

GenericCloud_new(self, config, learning, broadcast, t) ==
  [config |-> config,
   node_id |-> NodeIdOf(self),
   peers |-> PeerList_new,
   addresses |-> <<>>,
   learning |-> learning,
   broadcast |-> broadcast,
   reconnect_peers |-> <<>>,
   own_addresses |-> LocalAddrs,
   table |-> Table_new,
   next_peerlist |-> t,
   next_housekeep |-> t,
   next_stats_out |-> t + STATS_INTERVAL,
   next_beacon |-> t]

(***************************************************************************)
(* Handler contexts.  env.fail = k > 0 makes the k-th send_to of the       *)
(* handler fail; env.order is the iteration order of the hash maps.        *)
(***************************************************************************)
Ctx(c) == [c |-> c, sent |-> <<>>, tried |-> 0, dev |-> <<>>, res |-> "ok"]

\* send_msg (cloud.rs 313-327): Err when send_to fails or truncates
send_msg(ctx, addr, msg, env) ==
  IF ctx.tried + 1 = env.fail
  THEN [ctx EXCEPT !.tried = @ + 1, !.res = "err"]
  ELSE [ctx EXCEPT !.tried = @ + 1, !.sent = Append(@, [dst |-> addr, msg |-> msg])]

\* a call whose error is dropped with .ok()
Ignore(ctx) == [ctx EXCEPT !.res = "ok"]

own_contains(c, addr) == addr \in Elems(c.own_addresses)

\* connect_sock without the test of own_addresses
connect_sock_noown(ctx, addr, env) ==
  IF PeerList_contains_addr(ctx.c.peers, addr)
  THEN ctx
  ELSE send_msg(ctx, addr, Init_msg(0, ctx.c.node_id, ctx.c.addresses), env)

\* connect_sock (cloud.rs 408-417)
connect_sock(ctx, addr, env) ==
  IF PeerList_contains_addr(ctx.c.peers, addr) \/ own_contains(ctx.c, addr)
  THEN ctx
  ELSE send_msg(ctx, addr, Init_msg(0, ctx.c.node_id, ctx.c.addresses), env)

\* for p in list { try!(self.connect_sock(p)) }
RECURSIVE connect_sock_each(_, _, _)
connect_sock_each(ctx, list, env) ==
  IF list = <<>> \/ ctx.res = "err" THEN ctx
  ELSE connect_sock_each(connect_sock(ctx, Head(list), env), Tail(list), env)

\* the elements of set S in the order env.order gives them
InOrder(S, env) == SelectSeq(env.order, LAMBDA a : a \in S)

(***************************************************************************)
(* handle_net_message (cloud.rs 639-701), one operator per match arm.      *)
(***************************************************************************)
\* Message::Data with the sender refreshed as for the other messages
handle_Data_refresh(c, peer, msg, t, env) ==
  LET ctx == Ctx(c) IN
  IF ~P_parse_ok(msg.frame) THEN [ctx EXCEPT !.res = "err"]
  ELSE IF ~env.devok THEN [ctx EXCEPT !.res = "err"]
  ELSE [ctx EXCEPT !.dev = Append(@, msg.frame),
                   !.c.peers = PeerList_refresh(c.peers, peer, t),
                   !.c.table = IF c.learning
                               THEN Table_learn_host(c.table, msg.frame.src, peer, t)
                               ELSE c.table]

handle_Data(c, peer, msg, t, env) ==
  LET ctx == Ctx(c) IN
  IF ~P_parse_ok(msg.frame) THEN [ctx EXCEPT !.res = "err"]
  ELSE IF ~env.devok THEN [ctx EXCEPT !.res = "err"]
  ELSE [ctx EXCEPT !.dev = Append(@, msg.frame),
                   !.c.table = IF c.learning
                               THEN Table_learn_host(c.table, msg.frame.src, peer, t)
                               ELSE c.table]

\* Message::Peers
handle_Peers(c, peer, msg, t, env) ==
  LET ctx0 == Ctx(c)
      ctx1 == IF ~PeerList_contains_addr(c.peers, peer)
              THEN connect_sock(ctx0, peer, env)
              ELSE ctx0
      pl2 == IF PeerList_has_node_id(c.peers, peer)
             THEN PeerList_make_primary(c.peers, PeerList_get_node_id(c.peers, peer), peer)
             ELSE c.peers
      ctx2 == [ctx1 EXCEPT !.c.peers = pl2]
      ctx3 == connect_sock_each(ctx2, msg.peers, env)
  IN IF ctx1.res = "err" THEN ctx1
     ELSE IF ctx3.res = "err" THEN ctx3
     ELSE [ctx3 EXCEPT !.c.peers = PeerList_refresh(ctx3.c.peers, peer, t)]

\* for range in ranges { self.table.learn(range.base, Some(range.prefix_len), peer) }
RECURSIVE learn_ranges(_, _, _, _)
learn_ranges(tb, ranges, peer, t) ==
  IF ranges = <<>> THEN tb
  ELSE learn_ranges(Table_learn_range(tb, Head(ranges), peer, t), Tail(ranges), peer, t)

\* Message::Init answering stage 0 with the Init alone, no Peers message
handle_Init_nopeers(c, peer, msg, t, env) ==
  IF msg.node_id = c.node_id
  THEN Ctx([c EXCEPT !.own_addresses = Append(@, peer)])
  ELSE
  LET known == PeerList_contains_node(c.peers, msg.node_id)
      pl1 == IF known THEN PeerList_make_primary(c.peers, msg.node_id, peer)
             ELSE PeerList_add(c.peers, msg.node_id, peer, t)
      tb1 == IF known THEN c.table ELSE learn_ranges(c.table, msg.ranges, peer, t)
      ctx1 == Ctx([c EXCEPT !.peers = pl1, !.table = tb1])
  IN IF msg.stage = 0
     THEN send_msg(ctx1, peer, Init_msg(msg.stage + 1, c.node_id, c.addresses), env)
     ELSE ctx1

\* Message::Init with the self check removed
handle_Init_noself(c, peer, msg, t, env) ==
  LET known == PeerList_contains_node(c.peers, msg.node_id)
      pl1 == IF known THEN PeerList_make_primary(c.peers, msg.node_id, peer)
             ELSE PeerList_add(c.peers, msg.node_id, peer, t)
      tb1 == IF known THEN c.table ELSE learn_ranges(c.table, msg.ranges, peer, t)
      ctx1 == Ctx([c EXCEPT !.peers = pl1, !.table = tb1])
  IN IF msg.stage = 0
     THEN LET peers == InOrder(PeerList_as_vec(pl1), env)
              ctx2 == send_msg(ctx1, peer, Init_msg(msg.stage + 1, c.node_id, c.addresses), env)
          IN IF ctx2.res = "err" THEN ctx2
             ELSE send_msg(ctx2, peer, Peers_msg(peers), env)
     ELSE ctx1

\* Message::Init with the reply sent whatever the stage
handle_Init_anystage(c, peer, msg, t, env) ==
  IF msg.node_id = c.node_id
  THEN Ctx([c EXCEPT !.own_addresses = Append(@, peer)])
  ELSE
  LET known == PeerList_contains_node(c.peers, msg.node_id)
      pl1 == IF known THEN PeerList_make_primary(c.peers, msg.node_id, peer)
             ELSE PeerList_add(c.peers, msg.node_id, peer, t)
      tb1 == IF known THEN c.table ELSE learn_ranges(c.table, msg.ranges, peer, t)
      ctx1 == Ctx([c EXCEPT !.peers = pl1, !.table = tb1])
      peers == InOrder(PeerList_as_vec(pl1), env)
      ctx2 == send_msg(ctx1, peer, Init_msg(msg.stage + 1, c.node_id, c.addresses), env)
  IN IF ctx2.res = "err" THEN ctx2
     ELSE send_msg(ctx2, peer, Peers_msg(peers), env)

\* Message::Init
handle_Init(c, peer, msg, t, env) ==
  IF msg.node_id = c.node_id
  THEN Ctx([c EXCEPT !.own_addresses = Append(@, peer)])
  ELSE
  LET known == PeerList_contains_node(c.peers, msg.node_id)
      pl1 == IF known THEN PeerList_make_primary(c.peers, msg.node_id, peer)
             ELSE PeerList_add(c.peers, msg.node_id, peer, t)
      tb1 == IF known THEN c.table ELSE learn_ranges(c.table, msg.ranges, peer, t)
      ctx1 == Ctx([c EXCEPT !.peers = pl1, !.table = tb1])
  IN IF msg.stage = 0
     THEN LET peers == InOrder(PeerList_as_vec(pl1), env)
              ctx2 == send_msg(ctx1, peer, Init_msg(msg.stage + 1, c.node_id, c.addresses), env)
          IN IF ctx2.res = "err" THEN ctx2
             ELSE send_msg(ctx2, peer, Peers_msg(peers), env)
     ELSE ctx1

\* Message::Close
handle_Close(c, peer, msg, t, env) ==
  Ctx([c EXCEPT !.peers = PeerList_remove(c.peers, peer),
                !.table = Table_remove_all(c.table, peer)])

handle_net_message(c, peer, msg, t, env) ==
  CASE msg.kind = "Data" -> handle_Data(c, peer, msg, t, env)
    [] msg.kind = "Peers" -> handle_Peers(c, peer, msg, t, env)
    [] msg.kind = "Init" -> handle_Init(c, peer, msg, t, env)
    [] msg.kind = "Close" -> handle_Close(c, peer, msg, t, env)


(***************************************************************************)
(* broadcast_msg, connect, add_reconnect_peer (cloud.rs 288-305, 351-398). *)
(***************************************************************************)
\* for addr in list { try!(send_to(addr)) }
RECURSIVE send_each(_, _, _, _)
send_each(ctx, list, msg, env) ==
  IF list = <<>> \/ ctx.res = "err" THEN ctx
  ELSE send_each(send_msg(ctx, Head(list), msg, env), Tail(list), msg, env)

\* broadcast_msg: one send per key of peers.peers, in the map's iteration order
broadcast_msg(ctx, msg, env) ==
  send_each(ctx, InOrder(DOMAIN ctx.c.peers.peers, env), msg, env)

\* subset(size): choose_multiple draws size keys of peers (all of them when
\* there are no more than size), in an order of its own (env.sample)
PeerList_subset(pl, size, env) ==
  LET keys == SelectSeq(env.sample, LAMBDA a : a \in DOMAIN pl.peers)
  IN SubSeq(keys, 1, Min(size, Len(keys)))

is_own_address(c, addrs) == \E i \in 1..Len(addrs) : own_contains(c, addrs[i])

\* for a in resolve(addr) { self.send_msg(a, Init(0, ..)).ok() }
RECURSIVE connect_each(_, _, _)
connect_each(ctx, addrs, env) ==
  IF addrs = <<>> THEN ctx
  ELSE connect_each(Ignore(send_msg(ctx, Head(addrs),
                                    Init_msg(0, ctx.c.node_id, ctx.c.addresses), env)),
                    Tail(addrs), env)

\* connect on a slice of socket addresses, which always resolves
connect(ctx, addrs, env) ==
  IF PeerList_is_connected(ctx.c.peers, addrs) \/ is_own_address(ctx.c, addrs)
  THEN ctx
  ELSE connect_each(ctx, addrs, env)

ReconnectEntry(address, resolved, next_resolve, tries, timeout, next) ==
  [address |-> address, resolved |-> resolved, next_resolve |-> next_resolve,
   tries |-> tries, timeout |-> timeout, next |-> next]

add_reconnect_peer(c, add, t) ==
  [c EXCEPT !.reconnect_peers = Append(@, ReconnectEntry(add, <<>>, t, 0, 1, t))]

(***************************************************************************)
(* housekeep (cloud.rs 429-511).  env.resolve_ok / env.resolved is what    *)
(* DNS answers, env.stats_ok whether the stats file can be written,        *)
(* env.cmd whether a beacon command result is waiting, env.store_ok and    *)
(* env.load_ok whether the beacon serializer succeeds, env.beacon the      *)
(* addresses a beacon holds.                                               *)
(***************************************************************************)
U16(n) == n % 65536

\* lines 430-433: evict timed-out peers, drop their table entries, age the table
RECURSIVE remove_all_each(_, _)
remove_all_each(tb, del) ==
  IF del = {} THEN tb
  ELSE LET peer == CHOOSE a \in del : TRUE
       IN remove_all_each(Table_remove_all(tb, peer), del \ {peer})

housekeep_timeout(c, t) ==
  LET del == PeerList_expired(c.peers, t)
  IN [c EXCEPT !.peers = PeerList_timeout(c.peers, t),
               !.table = Table_housekeep(remove_all_each(c.table, del), t)]

\* lines 439-453 with the list not cut at 20 addresses
housekeep_peerlist_nocap(ctx, t, env) ==
  IF ctx.c.next_peerlist <= t
  THEN LET peer_num == PeerList_len(ctx.c.peers)
           peers == PeerList_subset(ctx.c.peers, peer_num, env)
           ctx1 == broadcast_msg(ctx, Peers_msg(peers), env)
       IN IF ctx1.res = "err" THEN ctx1
          ELSE [ctx1 EXCEPT !.c.next_peerlist = t + Keepalive]
  ELSE ctx

\* lines 439-453: the periodic peer list
housekeep_peerlist(ctx, t, env) ==
  IF ctx.c.next_peerlist <= t
  THEN LET peer_num == Min(PeerList_len(ctx.c.peers), 20)
           peers == PeerList_subset(ctx.c.peers, peer_num, env)
           ctx1 == broadcast_msg(ctx, Peers_msg(peers), env)
       IN IF ctx1.res = "err" THEN ctx1
          ELSE [ctx1 EXCEPT !.c.next_peerlist = t + Keepalive]
  ELSE ctx

\* lines 455-460: dial the reconnect entries that are due
RECURSIVE housekeep_dial(_, _, _, _)
housekeep_dial(ctx, entries, t, env) ==
  IF entries = <<>> THEN ctx
  ELSE IF Head(entries).next > t THEN housekeep_dial(ctx, Tail(entries), t, env)
  ELSE housekeep_dial(connect(ctx, Head(entries).resolved, env), Tail(entries), t, env)

\* lines 481-491 without the clamp to MAX_RECONNECT_INTERVAL
reschedule_noclamp(entry, t) ==
  LET tries1 == U16(entry.tries + 1)
      tries2 == IF tries1 > 10 THEN 0 ELSE tries1
      timeout2 == IF tries1 > 10 THEN U16(entry.timeout * 2) ELSE entry.timeout
  IN [entry EXCEPT !.tries = tries2, !.timeout = timeout2, !.next = t + timeout2]

\* lines 481-491: count the try, double every time the counter passes 10, clamp
reschedule(entry, t) ==
  LET tries1 == U16(entry.tries + 1)
      tries2 == IF tries1 > 10 THEN 0 ELSE tries1
      timeout2 == IF tries1 > 10 THEN U16(entry.timeout * 2) ELSE entry.timeout
      timeout3 == IF timeout2 > MAX_RECONNECT_INTERVAL THEN MAX_RECONNECT_INTERVAL ELSE timeout2
  IN [entry EXCEPT !.tries = tries2, !.timeout = timeout3, !.next = t + timeout3]

\* lines 461-492 for one entry
reconnect_entry(pl, entry, t, env) ==
  IF PeerList_is_connected(pl, entry.resolved)
  THEN [entry EXCEPT !.tries = 0, !.timeout = 1, !.next = t + 1]
  ELSE LET e1 == IF entry.next_resolve <= t
                 THEN [entry EXCEPT !.resolved = IF env.resolve_ok THEN env.resolved ELSE @,
                                    !.next_resolve = t + RESOLVE_INTERVAL]
                 ELSE entry
       IN IF e1.next > t THEN e1 ELSE reschedule(e1, t)

housekeep_reconnect(ctx, t, env) ==
  [ctx EXCEPT !.c.reconnect_peers =
     [i \in 1..Len(@) |-> reconnect_entry(ctx.c.peers, @[i], t, env)]]

\* lines 493-498
housekeep_stats(ctx, t, env) ==
  IF ctx.c.next_stats_out < t
  THEN IF ctx.c.config.stats_file /\ ~env.stats_ok
       THEN [ctx EXCEPT !.res = "err"]
       ELSE [ctx EXCEPT !.c.next_stats_out = t + STATS_INTERVAL]
  ELSE ctx

\* lines 499-504
housekeep_cmd_results(ctx, t, env) ==
  IF env.cmd THEN connect_sock_each(ctx, env.beacon, env) ELSE ctx

\* store_beacon (lines 514-524)
store_beacon(ctx, env) ==
  IF ctx.c.config.beacon_store # "none" /\ ~env.store_ok
  THEN [ctx EXCEPT !.res = "err"]
  ELSE ctx

\* load_beacon (lines 527-544)
load_beacon(ctx, env) ==
  CASE ctx.c.config.beacon_load = "none" -> ctx
    [] ctx.c.config.beacon_load = "cmd" ->
         IF env.load_ok THEN ctx ELSE [ctx EXCEPT !.res = "err"]
    [] ctx.c.config.beacon_load = "file" ->
         IF env.load_ok THEN connect_sock_each(ctx, env.beacon, env)
         ELSE [ctx EXCEPT !.res = "err"]

\* lines 505-509
housekeep_beacon(ctx, t, env) ==
  IF ctx.c.next_beacon < t
  THEN LET ctx1 == store_beacon(ctx, env)
           ctx2 == IF ctx1.res = "err" THEN ctx1 ELSE load_beacon(ctx1, env)
       IN IF ctx2.res = "err" THEN ctx2
          ELSE [ctx2 EXCEPT !.c.next_beacon = t + BeaconInterval]
  ELSE ctx

housekeep(c, t, env) ==
  LET ctx1 == housekeep_peerlist(Ctx(housekeep_timeout(c, t)), t, env)
      ctx2 == housekeep_dial(ctx1, ctx1.c.reconnect_peers, t, env)
      ctx3 == housekeep_stats(housekeep_reconnect(ctx2, t, env), t, env)
      ctx4 == housekeep_cmd_results(ctx3, t, env)
  IN IF ctx1.res = "err" THEN ctx1
     ELSE IF ctx3.res = "err" THEN ctx3
     ELSE IF ctx4.res = "err" THEN ctx4
     ELSE housekeep_beacon(ctx4, t, env)

(***************************************************************************)
(* handle_interface_data (cloud.rs 577-604) and the event loop of run      *)
(* (cloud.rs 711-790).  The lookup and remove of the Table trait follow    *)
(* the table's description: an exact host entry of the learned cache is    *)
(* preferred to the claim whose range covers the address, and the one      *)
(* range of the model covers every inner address.                          *)
(***************************************************************************)
Table_covering(tb, addr) == DOMAIN tb.claims
Table_found(tb, addr) == addr \in DOMAIN tb.cache \/ Table_covering(tb, addr) # {}
Table_lookup(tb, addr) ==
  IF addr \in DOMAIN tb.cache THEN tb.cache[addr].peer
  ELSE tb.claims[CHOOSE r \in Table_covering(tb, addr) : TRUE].peer
Table_remove(tb, addr) ==
  IF addr \in DOMAIN tb.cache THEN [tb EXCEPT !.cache = Del(@, addr)]
  ELSE [tb EXCEPT !.claims = DelAll(@, Table_covering(tb, addr))]

handle_interface_data(c, frame, env) ==
  LET ctx == Ctx(c) IN
  IF ~P_parse_ok(frame) THEN [ctx EXCEPT !.res = "err"]
  ELSE IF Table_found(c.table, frame.dst)
  THEN LET addr == Table_lookup(c.table, frame.dst)
           ctx1 == send_msg(ctx, addr, Data_msg(frame), env)
       IN IF ctx1.res = "err" THEN ctx1
          ELSE IF ~PeerList_contains_addr(c.peers, addr)
          THEN connect_sock([ctx1 EXCEPT !.c.table = Table_remove(@, frame.dst)], addr, env)
          ELSE ctx1
  ELSE IF c.broadcast THEN broadcast_msg(ctx, Data_msg(frame), env)
  ELSE ctx

\* bytes that decode() rejects
Undecodable == [kind |-> "none"]

\* The locals of run: pc is where the loop stands ("wait" at poll_handle.wait,
\* "events" in the for loop over the events, "timer" at line 774, "exited"
\* after line 788, "failed" once fail! has ended the process), poll_error the
\* latch of line 735, evts the events still to handle, trap whether one of
\* the trapped signals is pending.
Run_new == [pc |-> "wait", poll_error |-> FALSE, evts |-> <<>>, trap |-> FALSE]

\* lines 739-746: wait returned Err
run_wait_err(l) ==
  IF l.poll_error THEN [l EXCEPT !.pc = "failed"]
  ELSE [l EXCEPT !.poll_error = TRUE]

\* line 738: wait returned the events evts
run_wait_ok(l, evts) ==
  [l EXCEPT !.pc = IF evts = <<>> THEN "timer" ELSE "events", !.evts = evts]

\* lines 750-762: a socket is readable; rcv is what recv_from returns, the
\* decoded message included.  try_fail! ends the process as fail! does.
run_socket(c, rcv, t, env) ==
  IF ~rcv.ok THEN [Ctx(c) EXCEPT !.res = "fatal"]
  ELSE IF rcv.msg = Undecodable THEN [Ctx(c) EXCEPT !.res = "err"]
  ELSE handle_net_message(c, rcv.src, rcv.msg, t, env)

\* lines 763-769: the device is readable; rd is what device.read returns
run_device(c, rd, env) ==
  IF ~rd.ok THEN [Ctx(c) EXCEPT !.res = "fatal"]
  ELSE handle_interface_data(c, rd.frame, env)

\* one turn of the for loop of lines 747-772 on the first event left
run_event(c, l, rcv, rd, t, env) ==
  LET ctx == IF Head(l.evts) = "device" THEN run_device(c, rd, env)
             ELSE run_socket(c, rcv, t, env)
  IN [ctx |-> ctx,
      l |-> [l EXCEPT !.evts = Tail(@),
                      !.pc = IF ctx.res = "fatal" THEN "failed"
                             ELSE IF Tail(l.evts) = <<>> THEN "timer" ELSE "events"]]

\* lines 774-785, and 787-788 when the loop breaks: the housekeep trigger
run_timer(c, l, t, env) ==
  IF c.next_housekeep < t
  THEN IF l.trap
       THEN [ctx |-> Ignore(broadcast_msg(Ctx(c), Close_msg, env)),
             l |-> [l EXCEPT !.pc = "exited", !.poll_error = FALSE, !.trap = FALSE]]
       ELSE LET ctx == housekeep(c, t, env)
            IN [ctx |-> [ctx EXCEPT !.c.next_housekeep = t + 1],
                l |-> [l EXCEPT !.pc = "wait", !.poll_error = FALSE]]
  ELSE [ctx |-> Ctx(c), l |-> [l EXCEPT !.pc = "wait"]]

(***************************************************************************)
(* SharedPeerCrypto (src/src/engine/shared.rs 21-72).  A crypto map takes  *)
(* a peer's socket address to its Option<Arc<CryptoCore>>: "none" for a    *)
(* peer that talks unencrypted, else the name of the core.  peers is the   *)
(* map behind the mutex, which every clone shares; cache is a clone's own. *)
(***************************************************************************)
Cores == {"none", "k1"}
\* the clones that read: the I/O threads
Reader == {"r1"}
SharedPeerCrypto_new == [peers |-> EmptyMap, cache |-> EmptyMap]

\* encrypt_for (lines 32-49) on a clone's cache and the shared map: the new
\* cache, the result, and the core the data was encrypted with
encrypt_for(cache, peers, peer) ==
  IF peer \in DOMAIN cache
  THEN [cache |-> cache, res |-> "ok", core |-> cache[peer]]
  ELSE IF peer \in DOMAIN peers
  THEN [cache |-> Put(cache, peer, peers[peer]), res |-> "ok", core |-> peers[peer]]
  ELSE [cache |-> cache, res |-> "InvalidCryptoState", core |-> "none"]

\* cache.clear() and cache.extend(..) of HashMap
Clear(m) == EmptyMap
Extend(m, n) == [k \in DOMAIN m \cup DOMAIN n |-> IF k \in DOMAIN n THEN n[k] ELSE m[k]]

\* store (lines 51-57), its two halves: the writer's cache is rebuilt from
\* data, a map of PeerData (52-53), then the shared map from the cache under
\* the lock (54-56)
store_cache(cache, data) == Extend(Clear(cache), [k \in DOMAIN data |-> data[k].crypto])
store_peers(peers, cache) == Extend(Clear(peers), cache)

\* load without the clear
load_noclear(cache, peers) == Extend(cache, peers)

\* load (lines 59-63): under the lock, the cache becomes a copy of the map
load(cache, peers) == Extend(Clear(cache), peers)

(***************************************************************************)
(* The state machine.  cloud[self] is the GenericCloud of engine self, net *)
(* the bag of datagrams in flight between the engines.  hist is history:   *)
(* clock counts the seconds ticked, dials the connect calls made from      *)
(* outside, attempts the consecutive due attempts of the first reconnect   *)
(* entry since it was added or last found connected (its other fields are  *)
(* described with SpecRun).  loop[self] holds the locals of run.  Every    *)
(* action takes the sets its inputs are drawn from, so that each           *)
(* specification states the environment it runs the engine in.             *)
(***************************************************************************)
AddrOrders == Orderings(Addr)
Order0 == CHOOSE o \in AddrOrders : TRUE

\* an environment in which nothing fails
Env0 ==
  [fail |-> 0, order |-> Order0, sample |-> Order0, devok |-> TRUE,
   resolve_ok |-> TRUE, resolved |-> <<"a2">>, stats_ok |-> TRUE, cmd |-> FALSE,
   store_ok |-> TRUE, load_ok |-> TRUE, beacon |-> <<>>]

\* the k-th send fails (k = 0: none does), the device write fails or not
SendEnvs(n) == {[Env0 EXCEPT !.fail = f] : f \in 0..n}
DevEnvs == {[Env0 EXCEPT !.devok = d] : d \in BOOLEAN}
\* what housekeep can meet: a failing send, DNS, stats file and beacon outcomes
HouseEnvs ==
  {[Env0 EXCEPT !.fail = f, !.resolve_ok = r, !.stats_ok = s, !.cmd = c,
                !.store_ok = b, !.load_ok = b, !.beacon = l] :
     f \in 0..1, r \in BOOLEAN, s \in BOOLEAN, c \in BOOLEAN, b \in BOOLEAN,
     l \in {<<>>, <<"a3">>}}

Stage == {0, 1}
RangeLists == {<<>>} \cup {<<r>> : r \in Range}
PeersLists == UNION {[1..n -> Addr] : n \in 0..MaxPeersLen}
Config0 == Config("file", "file", TRUE)

InitWith(L) ==
  /\ \E learning \in L :
       cloud = [self \in Node |-> GenericCloud_new(self, Config0, learning, FALSE, Now)]
  /\ net = EmptyBag
  /\ hist = [clock |-> 0, dials |-> 0, attempts |-> 0, waited |-> 0, pending |-> 0,
             why |-> "none", waits |-> <<>>,
             exit |-> [tried |-> 0, sent |-> <<>>, peers |-> {}]]
  /\ loop = [self \in Node |-> Run_new]
  /\ shared = [peers |-> SharedPeerCrypto_new.peers,
               writer |-> [cache |-> SharedPeerCrypto_new.cache, pc |-> "idle"],
               cache |-> [r \in Reader |-> SharedPeerCrypto_new.cache],
               published |-> <<SharedPeerCrypto_new.peers>>,
               loaded |-> [r \in Reader |-> 1],
               last |-> [r \in Reader |-> "none"]]

\* a Time field d seconds later
Later(x, d) == IF x - d < -1 THEN -1 ELSE x - d
ShiftEntries(m, d) == [k \in DOMAIN m |-> [m[k] EXCEPT !.expires = Later(@, d)]]
Shift(c, d) ==
  [c EXCEPT
     !.peers.peers = [a \in DOMAIN @ |-> [@[a] EXCEPT !.timeout = Later(@, d)]],
     !.table = [claims |-> ShiftEntries(@.claims, d), cache |-> ShiftEntries(@.cache, d)],
     !.reconnect_peers = [i \in 1..Len(@) |->
                            [@[i] EXCEPT !.next_resolve = Later(@, d), !.next = Later(@, d)]],
     !.next_peerlist = Later(@, d),
     !.next_housekeep = Later(@, d),
     !.next_stats_out = Later(@, d),
     !.next_beacon = Later(@, d)]

\* the clock advances by d seconds, in a run of at most horizon seconds
Tick(d, horizon) ==
  /\ hist.clock + d <= horizon
  /\ cloud' = [self \in Node |-> Shift(cloud[self], d)]
  /\ hist' = [hist EXCEPT !.clock = @ + d]
  /\ UNCHANGED <<net, loop, shared>>

\* the clock advances by d seconds (the process is idle or suspended meanwhile)
Jump(d) ==
  /\ cloud' = [self \in Node |-> Shift(cloud[self], d)]
  /\ UNCHANGED <<net, hist, loop, shared>>

\* engine self receives msg from address peer (run, cloud.rs 750-762)
Handle(self, peer, msg, env) ==
  LET ctx == handle_net_message(cloud[self], peer, msg, Now, env)
  IN /\ cloud' = [cloud EXCEPT ![self] = ctx.c]
     /\ UNCHANGED <<hist, loop, shared>>

\* PN: the (address, node id) pairs an Init arrives with
RecvInit(self, PN, R, E) ==
  \E pn \in PN, stage \in Stage, ranges \in R, env \in E :
    /\ pn[2] = cloud[self].node_id =>
         Len(cloud[self].own_addresses) < Len(LocalAddrs) + MaxOwn
    /\ Handle(self, pn[1], Init_msg(stage, pn[2], ranges), env)
    /\ UNCHANGED net

RecvPeers(self, P, L, E) ==
  \E peer \in P, list \in L, env \in E :
    /\ Handle(self, peer, Peers_msg(list), env)
    /\ UNCHANGED net

RecvData(self, P, F, E) ==
  \E peer \in P, frame \in F, env \in E :
    /\ Handle(self, peer, Data_msg(frame), env)
    /\ UNCHANGED net

RecvClose(self, P) ==
  \E peer \in P :
    /\ Handle(self, peer, Close_msg, Env0)
    /\ UNCHANGED net

\* whether this housekeep run reaches the reconnect loop, finds the first entry
\* connected there, or finds it due
ReachesReconnect(c, env) ==
  housekeep_peerlist(Ctx(housekeep_timeout(c, Now)), Now, env).res = "ok"
FirstConnected(c) ==
  PeerList_is_connected(housekeep_timeout(c, Now).peers, c.reconnect_peers[1].resolved)
FirstDue(c) == c.reconnect_peers[1].next <= Now

\* run, lines 774-785: housekeep when next_housekeep < now (no signal pending);
\* its error is logged and next_housekeep is set in either case
Housekeep(self, E) ==
  \E env \in E :
    /\ cloud[self].next_housekeep < Now
    /\ LET c == cloud[self]
           ctx == housekeep(c, Now, env)
       IN /\ cloud' = [cloud EXCEPT ![self] = [ctx.c EXCEPT !.next_housekeep = Now + 1]]
          /\ hist' = IF c.reconnect_peers = <<>> \/ ~ReachesReconnect(c, env)
                     THEN hist
                     ELSE IF FirstConnected(c) THEN [hist EXCEPT !.attempts = 0]
                     ELSE IF FirstDue(c)
                          THEN [hist EXCEPT !.attempts = Min(@ + 1, MaxAttempts)]
                     ELSE hist
    /\ UNCHANGED <<net, loop, shared>>

\* a name is put on the reconnect list, which the program does between new()
\* and run(), the engine being as constructed otherwise
AddReconnect(self) ==
  /\ Len(cloud[self].reconnect_peers) < MaxReconnect
  /\ [cloud[self] EXCEPT !.reconnect_peers = <<>>]
       = GenericCloud_new(self, Config0, cloud[self].learning, FALSE, Now)
  /\ cloud' = [cloud EXCEPT ![self] = add_reconnect_peer(@, "x", Now)]
  /\ UNCHANGED <<net, hist, loop, shared>>

\* the datagrams a handler of engine self sent, added to those in flight: only
\* those addressed to an engine arrive anywhere, and UDP drops what the network
\* has no room for
RECURSIVE InFlight(_, _, _)
InFlight(bag, self, sent) ==
  IF sent = <<>> THEN bag
  ELSE LET g == [src |-> AddrOf(self), dst |-> Head(sent).dst, msg |-> Head(sent).msg]
           bag1 == IF (\E n \in Node : AddrOf(n) = g.dst) /\ BagCardinality(bag) < MaxInFlight
                   THEN bag (+) SetToBag({g}) ELSE bag
       IN InFlight(bag1, self, Tail(sent))

\* engine self is told to connect to engine other
Dial(self, other) ==
  /\ hist.dials < MaxDials
  /\ LET ctx == connect(Ctx(cloud[self]), <<AddrOf(other)>>, Env0)
     IN net' = InFlight(net, self, ctx.sent)
  /\ hist' = [hist EXCEPT !.dials = @ + 1]
  /\ UNCHANGED <<cloud, loop, shared>>

\* any datagram in flight is delivered to the engine it is addressed to, which
\* handles it; UDP keeps no order
Deliver(E) ==
  \E g \in BagToSet(net), env \in E :
    LET self == CHOOSE n \in Node : AddrOf(n) = g.dst
        ctx == handle_net_message(cloud[self], g.src, g.msg, Now, env)
    IN /\ cloud' = [cloud EXCEPT ![self] = ctx.c]
       /\ net' = InFlight(net (-) SetToBag({g}), self, ctx.sent)
       /\ UNCHANGED <<hist, loop, shared>>

(***************************************************************************)
(* Spec: one engine, A, receiving handshakes, gossip, data and close       *)
(* messages from the addresses of the remote nodes, and from its own       *)
(* address the Init it sent to itself, with the clock ticking and          *)
(* housekeeping.  Handshakes announce no ranges and learning is off: the   *)
(* table is the subject of SpecTable.                                      *)
(***************************************************************************)
Remote == {"NB", "NC"}
RemoteAddr == Addr \ {AddrOf("A")}
InitFrom == (RemoteAddr \X Remote) \cup {<<AddrOf("A"), NodeIdOf("A")>>}

Init == InitWith({FALSE})

Next ==
  \/ Tick(1, MaxTime)
  \/ RecvInit("A", InitFrom, {<<>>}, {Env0})
  \/ RecvPeers("A", RemoteAddr, PeersLists, SendEnvs(1))
  \/ RecvData("A", RemoteAddr, Frame \cup {Malformed}, DevEnvs)
  \/ RecvClose("A", RemoteAddr)
  \/ Housekeep("A", SendEnvs(1))

Spec == Init /\ [][Next]_vars

(***************************************************************************)
(* SpecTable: engine A with one remote node that moves between two         *)
(* addresses, announces ranges and sends data; learning on or off.         *)
(***************************************************************************)
TableAddr == {"a2", "a3"}

InitTable == InitWith(BOOLEAN)

NextTable ==
  \/ Tick(1, MaxTime)
  \/ RecvInit("A", TableAddr \X {"NB"}, RangeLists, {Env0})
  \/ RecvPeers("A", TableAddr, {<<>>}, {Env0})
  \/ RecvData("A", TableAddr, Frame \cup {Malformed}, DevEnvs)
  \/ RecvClose("A", TableAddr)
  \/ Housekeep("A", {Env0})

SpecTable == InitTable /\ [][NextTable]_vars

(***************************************************************************)
(* SpecHandshake: the engines A and B, told to connect to each other; the  *)
(* datagrams they send travel in net and arrive in any order; no send      *)
(* fails.  No housekeeping runs, so the clock plays no part.               *)
(***************************************************************************)
NextHandshake ==
  \/ Dial("A", "B")
  \/ Dial("B", "A")
  \/ Deliver({[Env0 EXCEPT !.order = o] : o \in AddrOrders})

SpecHandshake == Init /\ [][NextHandshake]_vars

(***************************************************************************)
(* SpecReconnect: engine A with a name on its reconnect list that resolves *)
(* to a2; the node behind a2 may answer (its Init arrives) and may leave   *)
(* (Close); between housekeeping runs the clock advances by an hour, so    *)
(* that every timer is due again.                                          *)
(***************************************************************************)
NextReconnect ==
  \/ Jump(MAX_RECONNECT_INTERVAL)
  \/ AddReconnect("A")
  \/ RecvInit("A", {<<"a2", "NB">>}, {<<>>}, {Env0})
  \/ RecvClose("A", {"a2"})
  \/ Housekeep("A", HouseEnvs)

SpecReconnect == Init /\ [][NextReconnect]_vars

(***************************************************************************)
(* SpecOpen: engine A on an open network, where the source address of a    *)
(* datagram says nothing about who sent it: an Init carrying another       *)
(* node's id may arrive from any address, the engine's own included (a     *)
(* second process bound to the same port with SO_REUSEADDR, a datagram of  *)
(* an earlier run of the process, a forged source).                        *)
(***************************************************************************)
OpenInitFrom == (Addr \X {"NB"}) \cup {<<AddrOf("A"), NodeIdOf("A")>>}

NextOpen ==
  \/ Tick(1, MaxTime)
  \/ RecvInit("A", OpenInitFrom, {<<>>}, {Env0})
  \/ RecvPeers("A", Addr, PeersLists, {Env0})
  \/ Housekeep("A", {Env0})

SpecOpen == Init /\ [][NextOpen]_vars

(***************************************************************************)
(* SpecGossip: engine A joined by MaxGossipPeers nodes, one after another, *)
(* each from an address of its own; the first of them also shows up from a *)
(* second address.  Housekeeping gossips the peer list; subset() may leave *)
(* out any of the peers and the sends may go out in any rotation of the    *)
(* map order, and the first send may fail.  The run lasts one peer         *)
(* timeout, in which no peer expires.                                      *)
(***************************************************************************)
GossipAddr(k) == "g" \o ToString(k)
GossipNode(k) == "n" \o ToString(k)
GossipOrder == [k \in 1..(MaxGossipPeers + 1) |-> GossipAddr(k - 1)]
Rotation(seq, k) == [i \in 1..Len(seq) |-> seq[((i + k - 1) % Len(seq)) + 1]]
GossipSamples ==
  {[Env0 EXCEPT !.order = Rotation(GossipOrder, k), !.sample = Rotation(GossipOrder, k)] :
     k \in 1..Len(GossipOrder)}
GossipEnvs == {[env EXCEPT !.fail = f] : env \in GossipSamples, f \in 0..1}

\* the next node to join: the first one the engine does not know; and node 1
\* from its second address
Joining(c) ==
  LET unknown == {k \in 1..MaxGossipPeers : ~PeerList_contains_node(c.peers, GossipNode(k))}
  IN {<<GossipAddr(k), GossipNode(k)>> : k \in {j \in unknown : \A i \in unknown : j <= i}}
       \cup {<<GossipAddr(0), GossipNode(1)>>}

NextGossip ==
  \/ Tick(1, PeerTimeout)
  \/ RecvInit("A", Joining(cloud["A"]), {<<>>}, {Env0})
  \/ Housekeep("A", GossipEnvs)

SpecGossip == Init /\ [][NextGossip]_vars

(***************************************************************************)
(* SpecPeerList: the PeerList of engine A used through its methods alone,  *)
(* called in any order with any node id and address, the clock ticking     *)
(* until a record added at the start has expired.                          *)
(***************************************************************************)
ListCall(pl) ==
  /\ cloud' = [cloud EXCEPT !["A"].peers = pl]
  /\ UNCHANGED <<net, hist, loop, shared>>

ListAdd == \E n \in Remote, a \in Addr : ListCall(PeerList_add(cloud["A"].peers, n, a, Now))
ListMakePrimary ==
  \E n \in Remote, a \in Addr : ListCall(PeerList_make_primary(cloud["A"].peers, n, a))
ListRefresh == \E a \in Addr : ListCall(PeerList_refresh(cloud["A"].peers, a, Now))
ListRemove == \E a \in Addr : ListCall(PeerList_remove(cloud["A"].peers, a))
ListTimeout == ListCall(PeerList_timeout(cloud["A"].peers, Now))

NextPeerList ==
  \/ Tick(1, PeerTimeout + 1)
  \/ ListAdd
  \/ ListMakePrimary
  \/ ListRefresh
  \/ ListRemove
  \/ ListTimeout

SpecPeerList == Init /\ [][NextPeerList]_vars

(***************************************************************************)
(* SpecDial: engine A with everything that makes it dial.  Handshakes come *)
(* from any address under node id NB and from A's own address under its    *)
(* own node id; peer lists name any address; data frames are learned when  *)
(* learning is on, whoever sent them; frames read from the device are      *)
(* routed by the table; a name is on the reconnect list; housekeeping      *)
(* finds beacons and DNS answers.  Learning is on, and the run lasts until *)
(* a peer added at the start has expired.                                  *)
(***************************************************************************)
DialFrames == {[src |-> "i1", dst |-> "i1"]}
\* what housekeep meets: a beacon naming a3, DNS answering with A's own address
\* or with a2, the first send failing or none
DialEnvs ==
  {[Env0 EXCEPT !.fail = f, !.beacon = l, !.resolved = r] :
     f \in 0..1, l \in {<<>>, <<"a3">>}, r \in {<<"a1">>, <<"a2">>}}

\* engine self reads a frame from its device (run, cloud.rs 763-769)
ReadFrame(self, F, E) ==
  \E frame \in F, env \in E :
    /\ cloud' = [cloud EXCEPT ![self] = handle_interface_data(@, frame, env).c]
    /\ UNCHANGED <<net, hist, loop, shared>>

InitDial == InitWith({TRUE})

NextDial ==
  \/ Tick(1, PeerTimeout + 1)
  \/ AddReconnect("A")
  \/ RecvInit("A", OpenInitFrom, {<<>>}, {Env0})
  \/ RecvPeers("A", Addr, PeersLists, {Env0})
  \/ RecvData("A", Addr, DialFrames, {Env0})
  \/ ReadFrame("A", DialFrames, SendEnvs(1))
  \/ Housekeep("A", DialEnvs)

SpecDial == InitDial /\ [][NextDial]_vars

(***************************************************************************)
(* SpecRetry: engine A with a name on its reconnect list that resolves to  *)
(* a2, from which nothing ever arrives, and a peer NC at a3 that joins and *)
(* keeps itself alive with Peers messages.  The clock advances by an hour  *)
(* between housekeeping runs, and the first send of a run may fail.  The   *)
(* loop keeps running: time passes, and housekeep runs whenever it is due  *)
(* (run, lines 774-785: the trigger is tested in every iteration).         *)
(***************************************************************************)
RetryEnvs == SendEnvs(1)

NextRetry ==
  \/ Jump(MAX_RECONNECT_INTERVAL)
  \/ AddReconnect("A")
  \/ RecvInit("A", {<<"a3", "NC">>}, {<<>>}, {Env0})
  \/ RecvPeers("A", {"a3"}, {<<>>}, {Env0})
  \/ Housekeep("A", RetryEnvs)

SpecRetry ==
  /\ Init
  /\ [][NextRetry]_vars
  /\ WF_vars(Jump(MAX_RECONNECT_INTERVAL))
  /\ WF_vars(Housekeep("A", RetryEnvs))

(***************************************************************************)
(* SpecShared: one writer (the engine thread) calling store with any peer  *)
(* map, its two halves apart, and the reader clones calling load and       *)
(* encrypt_for at any moment.  Every section under the mutex is one step.  *)
(* shared.published is history: the maps store has published, the empty    *)
(* map of new() first; loaded[r] is the index of the one reader r loaded   *)
(* last, last[r] its last call.                                            *)
(***************************************************************************)
MaxStores == 2
CryptoAddr == {"a2", "a3"}
StoreData == UNION {[S -> [crypto : Cores]] : S \in SUBSET CryptoAddr}

StoreBegin(D) ==
  \E data \in D :
    /\ shared.writer.pc = "idle"
    /\ Len(shared.published) <= MaxStores
    /\ shared' = [shared EXCEPT !.writer = [cache |-> store_cache(@.cache, data),
                                            pc |-> "publish"]]
    /\ UNCHANGED <<cloud, net, hist, loop>>

StorePublish ==
  /\ shared.writer.pc = "publish"
  /\ LET peers == store_peers(shared.peers, shared.writer.cache)
     IN shared' = [shared EXCEPT !.peers = peers,
                                 !.published = Append(@, peers),
                                 !.writer.pc = "idle"]
  /\ UNCHANGED <<cloud, net, hist, loop>>

Load(r) ==
  /\ shared' = [shared EXCEPT !.cache[r] = load(@, shared.peers),
                              !.loaded[r] = Len(shared.published),
                              !.last[r] = "load"]
  /\ UNCHANGED <<cloud, net, hist, loop>>

Encrypt(r, P) ==
  \E peer \in P :
    /\ shared' = [shared EXCEPT
                    !.cache[r] = encrypt_for(@, shared.peers, peer).cache,
                    !.last[r] = "encrypt_for"]
    /\ UNCHANGED <<cloud, net, hist, loop>>

NextShared ==
  \/ StoreBegin(StoreData)
  \/ StorePublish
  \/ \E r \in Reader : Load(r)
  \/ \E r \in Reader : Encrypt(r, CryptoAddr)

SpecShared == Init /\ [][NextShared]_vars

(***************************************************************************)
(* SpecRun: engine A inside run.  One action per step of the loop: the     *)
(* wait (which fails or returns events), the handling of one event, the    *)
(* housekeep trigger.  The clock advances while the loop is blocked in     *)
(* wait, which returns within its timeout of one second; a trapped signal  *)
(* can arrive at any moment.  Datagrams come from the two remote nodes.    *)
(* hist keeps what the properties ask about: waited, the seconds the       *)
(* current wait has lasted; pending, the seconds since the signal arrived; *)
(* why, the call that ended the process; waits, the outcomes of the last   *)
(* two wait calls; exit, the Close broadcast made on the way out.          *)
(***************************************************************************)
MaxEvents == 1
MaxPending == 2
Fds == {"socket4", "socket6", "device"}
RunEvents == UNION {[1..n -> Fds] : n \in 0..MaxEvents}
RunFrom == {<<"a2", "NB">>, <<"a3", "NC">>}
RunRecv ==
  {[ok |-> FALSE, src |-> "a2", msg |-> Undecodable]} \cup
  {[ok |-> TRUE, src |-> pn[1], msg |-> m] :
     pn \in RunFrom,
     m \in {Undecodable, Close_msg, Data_msg(Malformed),
            Data_msg([src |-> "i2", dst |-> "i1"])}} \cup
  {[ok |-> TRUE, src |-> pn[1], msg |-> Init_msg(0, pn[2], <<>>)] : pn \in RunFrom}
RunRead ==
  {[ok |-> FALSE, frame |-> Malformed]} \cup
  {[ok |-> TRUE, frame |-> f] : f \in {Malformed, [src |-> "i1", dst |-> "i2"]}}
RunEnvs == {[Env0 EXCEPT !.fail = f, !.order = o] : f \in 0..1, o \in {Order0, <<"a3", "a2", "a1">>}}

Running(self) == loop[self].pc \in {"wait", "events", "timer"}
LastTwo(seq) == IF Len(seq) > 2 THEN Tail(seq) ELSE seq

\* a second passes while the loop is blocked in wait(1000), in a run of MaxTime
\* seconds
RunTick(self) ==
  /\ loop[self].pc = "wait"
  /\ hist.waited < 1
  /\ hist.clock < MaxTime
  /\ cloud' = [n \in Node |-> Shift(cloud[n], 1)]
  /\ hist' = [hist EXCEPT !.clock = @ + 1, !.waited = @ + 1,
                          !.pending = IF loop[self].trap THEN Min(@ + 1, MaxPending) ELSE @]
  /\ UNCHANGED <<net, loop, shared>>

\* SIGINT, SIGTERM or SIGQUIT arrives and stays pending in the trap
Signal(self) ==
  /\ Running(self)
  /\ ~loop[self].trap
  /\ loop' = [loop EXCEPT ![self].trap = TRUE]
  /\ hist' = [hist EXCEPT !.pending = 0]
  /\ UNCHANGED <<cloud, net, shared>>

WaitErr(self) ==
  /\ loop[self].pc = "wait"
  /\ loop' = [loop EXCEPT ![self] = run_wait_err(@)]
  /\ hist' = [hist EXCEPT !.waited = 0,
                          !.waits = LastTwo(Append(@, "err")),
                          !.why = IF loop'[self].pc = "failed" THEN "wait" ELSE @]
  /\ UNCHANGED <<cloud, net, shared>>

WaitOk(self, EV) ==
  \E evts \in EV :
    /\ loop[self].pc = "wait"
    /\ loop' = [loop EXCEPT ![self] = run_wait_ok(@, evts)]
    /\ hist' = [hist EXCEPT !.waited = 0, !.waits = LastTwo(Append(@, "ok"))]
    /\ UNCHANGED <<cloud, net, shared>>

Event(self, RCV, RD, E) ==
  \E rcv \in RCV, rd \in RD, env \in E :
    /\ loop[self].pc = "events"
    /\ LET r == run_event(cloud[self], loop[self], rcv, rd, Now, env)
       IN /\ cloud' = [cloud EXCEPT ![self] = r.ctx.c]
          /\ loop' = [loop EXCEPT ![self] = r.l]
          /\ hist' = [hist EXCEPT !.why = IF r.l.pc # "failed" THEN @
                                          ELSE IF Head(loop[self].evts) = "device"
                                               THEN "read" ELSE "recv"]
    /\ UNCHANGED <<net, shared>>

Timer(self, E) ==
  \E env \in E :
    /\ loop[self].pc = "timer"
    /\ LET r == run_timer(cloud[self], loop[self], Now, env)
       IN /\ cloud' = [cloud EXCEPT ![self] = r.ctx.c]
          /\ loop' = [loop EXCEPT ![self] = r.l]
          /\ hist' = [hist EXCEPT
                        !.exit = IF r.l.pc = "exited"
                                 THEN [tried |-> r.ctx.tried, sent |-> r.ctx.sent,
                                       peers |-> DOMAIN cloud[self].peers.peers]
                                 ELSE @]
    /\ UNCHANGED <<net, shared>>

NextRun ==
  \/ RunTick("A")
  \/ Signal("A")
  \/ WaitErr("A")
  \/ WaitOk("A", RunEvents)
  \/ Event("A", RunRecv, RunRead, RunEnvs)
  \/ Timer("A", RunEnvs)

SpecRun == Init /\ [][NextRun]_vars

(***************************************************************************)
(* The properties.                                                         *)
(***************************************************************************)
\* the addresses the records of a peer list hold: primaries and alternates
Primaries(pl) == DOMAIN pl.peers
Alternates(pl) == UNION {Elems(pl.peers[p].alt_addrs) : p \in DOMAIN pl.peers}

\* C1: in every reachable state contains_addr(a) is true if and only if some
\* PeerRecord has a as its primary address or among its alternate addresses.
\* The code does not keep this: see C1_OrphanPrimary.
C1_ContainsAddrIffRecord ==
  \A self \in Node : \A a \in Addr :
    PeerList_contains_addr(cloud[self].peers, a)
      <=> a \in Primaries(cloud[self].peers) \cup Alternates(cloud[self].peers)

\* C2: the NodeId index and the primary-address index are mutual inverses:
\* nodes[n] = a if and only if peers holds at a a record whose node_id is n.
C2_NodesInversePeers ==
  \A self \in Node : \A n \in NodeId, a \in Addr :
    LET pl == cloud[self].peers
    IN (n \in DOMAIN pl.nodes /\ pl.nodes[n] = a)
         <=> (a \in DOMAIN pl.peers /\ pl.peers[a].node_id = n)

\* C3: at most one PeerRecord per NodeId: no two primary addresses hold
\* records with the same node_id.
C3_OneRecordPerNode ==
  \A self \in Node : \A a, b \in Primaries(cloud[self].peers) :
    cloud[self].peers.peers[a].node_id = cloud[self].peers.peers[b].node_id => a = b

\* two records are held, one of which has moved to a new primary address
C3_Witness ==
  LET pl == cloud["A"].peers
  IN /\ Cardinality(Primaries(pl)) = 2
     /\ \E p \in Primaries(pl) : pl.peers[p].alt_addrs # <<>>

\* C4: the alternate-address list of every PeerRecord does not contain the
\* record's primary address and contains no address twice.
C4_AlternatesDistinct ==
  \A self \in Node : \A p \in Primaries(cloud[self].peers) :
    LET alt == cloud[self].peers.peers[p].alt_addrs
    IN /\ p \notin Elems(alt)
       /\ \A i, j \in 1..Len(alt) : alt[i] = alt[j] => i = j

\* a record has moved between the two addresses of its node: it is held at one
\* with the other as its only alternate, and both answer contains_addr
C4_Witness ==
  LET pl == cloud["A"].peers
  IN \E p \in Primaries(pl) :
       /\ Len(pl.peers[p].alt_addrs) = 1
       /\ PeerList_contains_addr(pl, pl.peers[p].alt_addrs[1])
       /\ PeerList_contains_addr(pl, p)

\* the peer list that holds one record, for node_id at addr, and nothing else
OnlyPeer(pl, node_id, addr) ==
  /\ DOMAIN pl.peers = {addr}
  /\ pl.peers[addr].node_id = node_id
  /\ pl.peers[addr].alt_addrs = <<>>
  /\ pl.nodes = Put(EmptyMap, node_id, addr)
  /\ pl.addresses = Put(EmptyMap, addr, node_id)

\* what engine self sends on Init(0, node_id of other, []) from the address of
\* other
FirstReply(self, other, env) ==
  handle_net_message(cloud[self], AddrOf(other),
                     Init_msg(0, NodeIdOf(other), <<>>), Now, env).sent

\* C5 as stated: B answers A's Init(0, NA, []) with Init(1, NB, []) followed by
\* a Peers message carrying an empty address list.
C5_ReplyEmptyPeers ==
  \A self, other \in Node :
    (self # other /\ cloud[self].peers = PeerList_new) =>
      FirstReply(self, other, Env0)
        = <<[dst |-> AddrOf(other), msg |-> Init_msg(1, NodeIdOf(self), <<>>)],
            [dst |-> AddrOf(other), msg |-> Peers_msg(<<>>)]>>

\* C5, amended: B answers A's Init(0, NA, []) with Init(1, NB, []) followed by a
\* Peers message carrying A's address, the one peer B has by then; and once
\* a dial was made and every datagram is processed, A's peer list holds exactly
\* B and B's exactly A.
C5_Handshake ==
  /\ \A self, other \in Node : \A o \in AddrOrders :
       (self # other /\ cloud[self].peers = PeerList_new) =>
         FirstReply(self, other, [Env0 EXCEPT !.order = o])
           = <<[dst |-> AddrOf(other), msg |-> Init_msg(1, NodeIdOf(self), <<>>)],
               [dst |-> AddrOf(other), msg |-> Peers_msg(<<AddrOf(other)>>)]>>
  /\ (hist.dials > 0 /\ net = EmptyBag) =>
       /\ OnlyPeer(cloud["A"].peers, "NB", "a2")
       /\ OnlyPeer(cloud["B"].peers, "NA", "a1")

\* a dial was made, every datagram it caused is processed, both know each other
C5_Witness ==
  /\ hist.dials > 0
  /\ net = EmptyBag
  /\ OnlyPeer(cloud["A"].peers, "NB", "a2")
  /\ OnlyPeer(cloud["B"].peers, "NA", "a1")

\* C6: an Init carrying the engine's own NodeId, at any stage, from any address
\* and with any ranges, appends the source address to own_addresses and does
\* nothing else: no PeerRecord is created or changed, no claim is learned and
\* no send is attempted.
C6_SelfInit ==
  \A self \in Node, peer \in Addr, stage \in Stage, ranges \in RangeLists, env \in SendEnvs(1) :
    LET c == cloud[self]
        ctx == handle_net_message(c, peer, Init_msg(stage, c.node_id, ranges), Now, env)
    IN /\ ctx.c = [c EXCEPT !.own_addresses = Append(@, peer)]
       /\ ctx.c.peers = c.peers
       /\ ctx.c.table = c.table
       /\ ctx.tried = 0
       /\ ctx.sent = <<>>
       /\ ctx.res = "ok"

\* the engine has received its own Init while it holds a peer
C6_Witness ==
  /\ Len(cloud["A"].own_addresses) > Len(LocalAddrs)
  /\ cloud["A"].own_addresses[Len(LocalAddrs) + 1] = "a1"
  /\ cloud["A"].peers.peers # EmptyMap

\* the table entries whose owner is one of the addresses in owners
EntriesOf(tb, owners) ==
  {k \in DOMAIN tb.claims : tb.claims[k].peer \in owners}
    \cup {k \in DOMAIN tb.cache : tb.cache[k].peer \in owners}

\* C7: a housekeep run that evicts a peer leaves no table entry learned from
\* one of that peer's addresses, primary or alternate.  The code drops only the
\* entries of the primary address.
C7_PurgeEvicted ==
  \A self \in Node :
    LET c == cloud[self]
        after == housekeep(c, Now, Env0).c
    IN \A p \in PeerList_expired(c.peers, Now) :
         /\ ~PeerList_contains_addr(after.peers, p)
         /\ p \notin DOMAIN after.peers.peers
         /\ c.peers.peers[p].node_id \notin DOMAIN after.peers.nodes
         /\ EntriesOf(after.table, {p} \cup Elems(c.peers.peers[p].alt_addrs)) = {}

\* whether the table holds (addr -> peer) as learned at this instant
Learned(tb, addr, peer) ==
  addr \in DOMAIN tb.cache /\ tb.cache[addr] = [peer |-> peer, expires |-> Now + SwitchTimeout]

\* C8 as stated: a well-formed Data message is written to the device and the
\* entry (inner source -> P) is recorded if and only if learning is enabled.
C8_LearnIffLearning ==
  \A self \in Node, peer \in Addr, frame \in Frame, env \in DevEnvs :
    LET c == cloud[self]
        ctx == handle_net_message(c, peer, Data_msg(frame), Now, env)
    IN Learned(ctx.c.table, frame.src, peer) <=> c.learning

\* C8, amended: a well-formed Data message from P never changes the PeerList;
\* when the device write succeeds the payload is written and the entry (inner
\* source -> P) is recorded if and only if learning is enabled, nothing else of
\* the table changing; when the write fails the handler returns the error and
\* the engine is unchanged.
C8_DataFastPath ==
  \A self \in Node, peer \in Addr, frame \in Frame, env \in DevEnvs :
    LET c == cloud[self]
        ctx == handle_net_message(c, peer, Data_msg(frame), Now, env)
    IN /\ ctx.c.peers = c.peers
       /\ ctx.sent = <<>>
       /\ env.devok =>
            /\ ctx.res = "ok"
            /\ ctx.dev = <<frame>>
            /\ ctx.c.table.claims = c.table.claims
            /\ c.learning =>
                 /\ Learned(ctx.c.table, frame.src, peer)
                 /\ DOMAIN ctx.c.table.cache = DOMAIN c.table.cache \cup {frame.src}
                 /\ \A k \in DOMAIN c.table.cache \ {frame.src} :
                      ctx.c.table.cache[k] = c.table.cache[k]
            /\ ~c.learning => ctx.c.table = c.table
       /\ ~env.devok => ctx.res = "err" /\ ctx.dev = <<>> /\ ctx.c = c

\* learning is on, a peer is held whose expiry is no longer the fresh one, and
\* a host entry has been learned from it
C8_Witness ==
  LET c == cloud["A"]
  IN /\ c.learning
     /\ \E p \in DOMAIN c.peers.peers :
          /\ c.peers.peers[p].timeout < Now + PeerTimeout
          /\ \E k \in DOMAIN c.table.cache : c.table.cache[k].peer = p

\* C9: for an entry that is never connected the backoff after due attempts
\* 1..10 is 1, after attempts 11..20 it is 2 and after attempt 21 it is 4.
\* The code doubles at attempts 11, 22, ...: after attempt 21 the backoff is 2.
C9_BackoffSchedule ==
  cloud["A"].reconnect_peers # <<>> =>
    LET e == cloud["A"].reconnect_peers[1]
    IN /\ hist.attempts \in 1..10 => e.timeout = 1
       /\ hist.attempts \in 11..20 => e.timeout = 2
       /\ hist.attempts = 21 => e.timeout = 4

\* the values the backoff takes: the powers of two up to 2048, and the clamp
PowersOfTwo == {1, 2, 4, 8, 16, 32, 64, 128, 256, 512, 1024, 2048, 4096}
Backoffs == {x \in PowersOfTwo : x <= MAX_RECONNECT_INTERVAL} \cup {MAX_RECONNECT_INTERVAL}

\* the entry is connected when this housekeep run comes to its reconnect pass
ConnectedAtPass(c, entry) ==
  PeerList_is_connected(housekeep_timeout(c, Now).peers, entry.resolved)

PeersSent(sent) == {sent[i].msg : i \in {j \in 1..Len(sent) : sent[j].msg.kind = "Peers"}}
DialledBy(sent) ==
  {sent[i].dst : i \in {j \in 1..Len(sent) : sent[j].msg.kind = "Init" /\ sent[j].msg.stage = 0}}

\* C11: no Peers message the engine sends, in housekeep or after an Init
\* reply, carries an address of own_addresses, and handling a received Peers
\* message sends no Init to an address of own_addresses.  The code filters
\* what it dials, not what it gossips.
C11_NoSelfInGossip ==
  LET c == cloud["A"]
      own == Elems(c.own_addresses)
  IN /\ \A m \in PeersSent(housekeep(c, Now, Env0).sent) : Elems(m.peers) \cap own = {}
     /\ \A pn \in OpenInitFrom, stage \in Stage :
          \A m \in PeersSent(handle_net_message(c, pn[1], Init_msg(stage, pn[2], <<>>),
                                                Now, Env0).sent) :
            pn[2] # c.node_id => Elems(m.peers) \cap own = {}
     /\ \A peer \in Addr, list \in PeersLists :
          DialledBy(handle_net_message(c, peer, Peers_msg(list), Now, Env0).sent) \cap own = {}

\* a sequence without repetition
Distinct(seq) == \A i, j \in 1..Len(seq) : seq[i] = seq[j] => i = j

\* C12: every Peers message a housekeep run broadcasts carries exactly
\* min(peer_count, 20) addresses, all distinct and all primary addresses of
\* the peers held after the eviction of this run; a run whose gossip is due
\* and whose sends succeed sends it to every peer; and subset(k) returns at
\* most k distinct primary addresses, for every k.
C12_GossipCap ==
  LET c == cloud["A"]
      pl == housekeep_timeout(c, Now).peers
  IN /\ \A env \in GossipEnvs :
          LET ctx == housekeep(c, Now, env)
              gossip == PeersSent(ctx.sent)
          IN /\ \A msg \in gossip :
                  /\ Len(msg.peers) = Min(PeerList_len(pl), 20)
                  /\ Distinct(msg.peers)
                  /\ Elems(msg.peers) \subseteq Primaries(pl)
             /\ (c.next_peerlist <= Now /\ env.fail = 0 /\ Primaries(pl) # {}) =>
                  /\ gossip # {}
                  /\ {ctx.sent[i].dst : i \in {j \in 1..Len(ctx.sent) :
                                               ctx.sent[j].msg.kind = "Peers"}} = Primaries(pl)
     /\ \A k \in 0..(MaxGossipPeers + 1), env \in GossipSamples :
          LET got == PeerList_subset(c.peers, k, env)
          IN /\ Len(got) <= k
             /\ Len(got) = Min(k, PeerList_len(c.peers))
             /\ Distinct(got)
             /\ Elems(got) \subseteq Primaries(c.peers)

\* more than 20 peers were held, one of them with an alternate address, when
\* a housekeep run gossiped: they all joined before the tick, and the next
\* gossip is a keepalive away
C12_Witness ==
  LET pl == cloud["A"].peers
  IN /\ PeerList_len(pl) > 20
     /\ \A p \in Primaries(pl) : pl.peers[p].timeout < Now + PeerTimeout
     /\ \E p \in Primaries(pl) : pl.peers[p].alt_addrs # <<>>
     /\ cloud["A"].next_peerlist = Now + Keepalive

\* C13: add(node_id, addr) for a node_id that is known, at an address other
\* than the one the NodeId index holds for it, changes none of the three
\* indices.  The code overwrites nodes[node_id] before it looks whether the
\* key was there.
C13_AddKnownNoop ==
  LET pl == cloud["A"].peers
  IN \A n \in Remote, a \in Addr :
       (PeerList_contains_node(pl, n) /\ pl.nodes[n] # a) => PeerList_add(pl, n, a, Now) = pl

\* C14: make_primary(n, a) twice in succession leaves the PeerList (indices,
\* alternate lists, expiries) as one call leaves it.
C14_MakePrimaryIdempotent ==
  LET pl == cloud["A"].peers
  IN \A n \in Remote, a \in Addr :
       PeerList_make_primary(PeerList_make_primary(pl, n, a), n, a)
         = PeerList_make_primary(pl, n, a)

\* a record has been moved by make_primary and a further call would move it on
C14_Witness ==
  LET pl == cloud["A"].peers
  IN \E p \in Primaries(pl) :
       /\ pl.peers[p].alt_addrs # <<>>
       /\ \E a \in Addr :
            PeerList_make_primary(pl, pl.peers[p].node_id, a) # pl

\* C15: remove(a) of a primary address a leaves contains_addr false for a and
\* for every alternate address of the record removed, and contains_node false
\* for its NodeId.
C15_RemoveForgets ==
  LET pl == cloud["A"].peers
  IN \A a \in Primaries(pl) :
       LET after == PeerList_remove(pl, a)
       IN /\ ~PeerList_contains_addr(after, a)
          /\ \A x \in Elems(pl.peers[a].alt_addrs) : ~PeerList_contains_addr(after, x)
          /\ ~PeerList_contains_node(after, pl.peers[a].node_id)
          /\ a \notin Primaries(after)

\* a record with two alternate addresses, all three known, is there to remove
C15_Witness ==
  LET pl == cloud["A"].peers
  IN \E p \in Primaries(pl) :
       /\ Len(pl.peers[p].alt_addrs) = 2
       /\ \A x \in Elems(pl.peers[p].alt_addrs) : PeerList_contains_addr(pl, x)

\* C16: the event loop never ends because of a data-plane error: whenever the
\* process has been ended from inside the loop, the call that ended it is the
\* multiplexer wait, never a receive on a socket or a read of the device.
\* (Violated: recv_from and device.read are wrapped in try_fail!.)
C16_OnlyWaitFatal ==
  loop["A"].pc = "failed" => hist.why = "wait"

\* C17: a wait error is fatal only when the wait call immediately before it
\* also failed: when the process has been ended by a wait error, the last two
\* wait calls both failed.  (Violated: the latch set by a failed wait is
\* cleared by the housekeep trigger alone, not by a successful wait.)
C17_FatalAfterFailedWait ==
  (loop["A"].pc = "failed" /\ hist.why = "wait") => hist.waits = <<"err", "err">>

\* C18: once a trapped signal is pending the loop exits within one second of
\* clock time, and on the way out the engine attempts to send a Close to
\* every primary peer address: when run has returned, no more than one second
\* has passed since the signal arrived, and as many sends of the Close were
\* attempted as there are peer records.  (Violated: the trigger asks for
\* next_housekeep < now(), and broadcast_msg stops at the first failed send.)
C18_PromptExitCloseAll ==
  loop["A"].pc = "exited" =>
    /\ hist.pending <= 1
    /\ hist.exit.tried = Cardinality(hist.exit.peers)

\* the addresses the engine holds as its own or as a peer's, primary or alternate
Known(c) == Elems(c.own_addresses) \cup DOMAIN c.peers.addresses
DialLists == UNION {[1..n -> Addr] : n \in 1..2}
DialMsgs ==
  {Peers_msg(l) : l \in DialLists \cup {<<>>}} \cup {Close_msg} \cup
  {Data_msg(f) : f \in DialFrames} \cup {Init_msg(s, n, <<>>) : s \in Stage, n \in {"NA", "NB"}}

\* C19: the engine never sends an Init with stage 0 to an address that is in
\* own_addresses or known to the PeerList (primary or alternate) at that
\* moment: whatever message, device frame or housekeep run engine A handles
\* next, no Init(0) it sends goes to an address it then holds as its own or as
\* a peer's (the handlers change these sets only before they dial); connect
\* sends nothing when one of the addresses it is given is in either set, and
\* connect_sock sends nothing when its address is.
C19_SelfDialSuppression ==
  LET c == cloud["A"]
      Runs == {handle_net_message(c, p, msg, Now, env) :
                 p \in Addr, msg \in DialMsgs, env \in SendEnvs(1)}
              \cup {handle_interface_data(c, f, env) : f \in DialFrames, env \in SendEnvs(1)}
              \cup {housekeep(c, Now, env) : env \in DialEnvs}
  IN /\ \A ctx \in Runs : DialledBy(ctx.sent) \cap Known(ctx.c) = {}
     /\ \A cc \in {c, housekeep_timeout(c, Now)}, env \in SendEnvs(1) :
          /\ \A a \in Known(cc) : connect_sock(Ctx(cc), a, env).sent = <<>>
          /\ \A addrs \in DialLists :
               (\E i \in 1..Len(addrs) : addrs[i] \in Known(cc))
                 => connect(Ctx(cc), addrs, env).sent = <<>>

\* C19 witness: A holds its own address a1 and a peer address; a Peers message
\* from an unknown address that names a1 and the peer draws an Init(0) to the
\* sender alone, connect to the sender together with the peer sends nothing
\* while connect to the sender alone dials it, and a reconnect entry resolved
\* to a1 is due.
C19_Witness ==
  LET c == cloud["A"]
  IN /\ "a1" \in Elems(c.own_addresses)
     /\ c.reconnect_peers # <<>>
     /\ c.reconnect_peers[1].resolved = <<"a1">>
     /\ c.reconnect_peers[1].next <= Now
     /\ \E p \in Addr \ Known(c), a \in DOMAIN c.peers.addresses :
          /\ DialledBy(handle_net_message(c, p, Peers_msg(<<"a1", a>>), Now, Env0).sent) = {p}
          /\ connect(Ctx(c), <<p, a>>, Env0).sent = <<>>
          /\ DialledBy(connect(Ctx(c), <<p>>, Env0).sent) = {p}

\* a housekeep run of engine self that sends an Init(0) to every resolved
\* address of its first reconnect entry
DialPass(self, E) ==
  \E env \in E :
    LET c == cloud[self]
        ctx == housekeep(c, Now, env)
    IN /\ c.next_housekeep < Now
       /\ c.reconnect_peers # <<>>
       /\ c.reconnect_peers[1].resolved # <<>>
       /\ Elems(c.reconnect_peers[1].resolved) \subseteq DialledBy(ctx.sent)
       /\ cloud' = [cloud EXCEPT ![self] = [ctx.c EXCEPT !.next_housekeep = Now + 1]]
NoEntry == cloud["A"].reconnect_peers = <<>>
Unresolved == ~NoEntry /\ cloud["A"].reconnect_peers[1].resolved = <<>>
EntryConnected ==
  ~NoEntry /\ PeerList_is_connected(cloud["A"].peers, cloud["A"].reconnect_peers[1].resolved)

\* C20: a reconnect entry is retried for as long as it is not connected: with
\* the loop running, if a name is on the reconnect list and has resolved, and
\* its addresses never become known peers, then again and again a housekeep
\* run sends an Init(0) to them, whatever sends to other peers fail.
\* (Violated: housekeep returns at the failed peer-list broadcast, before it
\* reaches the reconnect entries.)
C20_RetryForever ==
  \/ []NoEntry
  \/ <>[]Unresolved
  \/ <>EntryConnected
  \/ []<><<DialPass("A", RetryEnvs)>>_vars

\* C21: a reader's cache is at every moment equal to one state published by
\* store (the empty map of new() included), never a mixture of two.
\* (Violated: on a cache miss encrypt_for copies one entry of the current
\* shared map into a cache loaded from an older one.)
C21_CacheIsPublishedState ==
  \A r \in Reader :
    \E i \in 1..Len(shared.published) : shared.cache[r] = shared.published[i]

C22_PeersRefreshes ==
  LET c == cloud["A"]
  IN \A peer \in DOMAIN c.peers.addresses, list \in PeersLists, env \in SendEnvs(1) :
       LET pl == handle_net_message(c, peer, Peers_msg(list), Now, env).c.peers
       IN /\ peer \in DOMAIN pl.peers
          /\ pl.peers[peer].node_id = c.peers.addresses[peer]
          /\ pl.peers[peer].timeout = Now + PeerTimeout

\* C23: in every iteration in which, the events drained, now >= next_housekeep
\* holds (and no signal is pending), housekeep runs in that same iteration
\* and next_housekeep is set to now + 1: the step that leaves the trigger
\* with next_housekeep <= now leaves next_housekeep at now + 1.  (Violated: the
\* trigger asks for next_housekeep < now, and skips the second in which the
\* two are equal.)
C23_HousekeepWhenDue ==
  [][(/\ loop["A"].pc = "timer"
      /\ loop'["A"].pc # "timer"
      /\ ~loop["A"].trap
      /\ cloud["A"].next_housekeep <= Now)
       => cloud'["A"].next_housekeep = Now + 1]_vars

\* the replies to an Init from another node: every node id but the engine's
\* own, every stage, the first or the second send failing or none
InitReply(c, peer, stage, n, f) ==
  handle_net_message(c, peer, Init_msg(stage, n, <<>>), Now, [Env0 EXCEPT !.fail = f])
\* the Peers messages in flight to engine self from an address it does not know
EarlyPeers(self) ==
  {g \in BagToSet(net) : /\ g.msg.kind = "Peers"
                         /\ g.dst = AddrOf(self)
                         /\ g.src \notin Known(cloud[self])}

Stale(c, frame) ==
  /\ P_parse_ok(frame)
  /\ Table_found(c.table, frame.dst)
  /\ ~PeerList_contains_addr(c.peers, Table_lookup(c.table, frame.dst))
\* the repair is done: the entry is removed and an Init(0) sent to its address
Repaired(c, frame, ctx) ==
  /\ ctx.c.table = Table_remove(c.table, frame.dst)
  /\ Table_lookup(c.table, frame.dst) \in DialledBy(ctx.sent)

\* C25: whenever handle_interface_data looks a destination up and the table
\* answers with an address that is not in the PeerList, the entry is removed
\* and an Init(0) is sent to the address by the time the handler returns,
\* whether sending the Data message succeeded (fail = 0) or not (fail = 1).
C25_StaleRepair ==
  \A frame \in DialFrames, f \in 0..1 :
    LET c == cloud["A"]
    IN Stale(c, frame) =>
         Repaired(c, frame, handle_interface_data(c, frame, [Env0 EXCEPT !.fail = f]))

\* the engine after a Close message from peer
AfterClose(c, peer) == handle_net_message(c, peer, Close_msg, Now, Env0).c
\* node n has left the PeerList pl: no record, no nodes entry, no known address
Forgotten(pl, n) ==
  /\ n \notin DOMAIN pl.nodes
  /\ \A a \in DOMAIN pl.peers : pl.peers[a].node_id # n
  /\ \A a \in DOMAIN pl.addresses : pl.addresses[a] # n

\* C26: after a Close message from a known peer (its address is in the
\* any-known index) the peer has no record, its node id is unknown, none of
\* its addresses is in the any-known index and no table entry points to the
\* sender; a Close from an address of no peer leaves the PeerList as it is.
C26_CloseForgets ==
  \A peer \in TableAddr :
    LET c == cloud["A"]
        d == AfterClose(c, peer)
    IN IF PeerList_contains_addr(c.peers, peer)
       THEN /\ Forgotten(d.peers, c.peers.addresses[peer])
            /\ peer \notin Table_peers(d.table)
       ELSE d.peers = c.peers

\* the addresses a Peers message went to
PeersSentTo(sent) ==
  {sent[i].dst : i \in {j \in 1..Len(sent) : sent[j].msg.kind = "Peers"}}
\* the reconnect list as the tick of lines 461-492 leaves it
Ticked(c, env) ==
  [i \in 1..Len(c.reconnect_peers) |->
     reconnect_entry(c.peers, c.reconnect_peers[i], Now, env)]

\* C27: whenever housekeep runs with now >= next_peerlist, the Peers message
\* is sent to every primary address (of the peers that have not just timed
\* out), next_peerlist is now + keepalive on return, and the later steps run
\* in the same call: the reconnect entries are ticked and a due beacon is
\* rescheduled.  A send may fail (fail = 1) or not.
C27_PeerListEveryKeepalive ==
  \A env \in SendEnvs(1) :
    LET c == cloud["A"]
        c0 == housekeep_timeout(c, Now)
        ctx == housekeep(c, Now, env)
    IN c.next_peerlist <= Now =>
         /\ DOMAIN c0.peers.peers \subseteq PeersSentTo(ctx.sent)
         /\ ctx.c.next_peerlist = Now + Keepalive
         /\ ctx.c.reconnect_peers = Ticked(c0, env)
         /\ c.next_beacon < Now => ctx.c.next_beacon = Now + BeaconInterval

\* the addresses the any-known index holds for node m
KnownOf(pl, m) == {x \in DOMAIN pl.addresses : pl.addresses[x] = m}
\* node n is known with its record under its primary nodes[n]
HasRecord(pl, n) ==
  /\ n \in DOMAIN pl.nodes
  /\ pl.nodes[n] \in DOMAIN pl.peers
  /\ pl.peers[pl.nodes[n]].node_id = n
\* what make_primary(n, a) has done to n in q, p being the primary it had in pl
Moved(pl, q, n, a) ==
  LET p == pl.nodes[n]
      rec == pl.peers[p]
  IN /\ p \notin DOMAIN q.peers
     /\ a \in DOMAIN q.peers
     /\ q.peers[a].node_id = n
     /\ q.peers[a].timeout = rec.timeout
     /\ q.peers[a].alt_addrs = Append(SelectSeq(rec.alt_addrs, LAMBDA x : x # a), p)
     /\ q.nodes[n] = a
     /\ {a, p} \subseteq KnownOf(q, n)
\* every node but n is in q what it was in pl
OthersKept(pl, q, n) ==
  /\ \A b \in DOMAIN pl.peers :
       pl.peers[b].node_id # n => b \in DOMAIN q.peers /\ q.peers[b] = pl.peers[b]
  /\ \A m \in NodeId \ {n} :
       /\ KnownOf(q, m) = KnownOf(pl, m)
       /\ m \in DOMAIN pl.nodes <=> m \in DOMAIN q.nodes
       /\ m \in DOMAIN pl.nodes => q.nodes[m] = pl.nodes[m]

\* C28: make_primary(n, a) for a known node n with primary p, a not being a
\* primary address, moves n's record to a with its node_id and expiry, makes
\* its alternates the old list without a plus p, sets nodes[n] = a, has a and
\* p map to n in the any-known index and leaves every other node's record,
\* alternates and known addresses as they were; for an unknown n it changes
\* nothing.
C28_MakePrimaryEffect ==
  LET pl == cloud["A"].peers
  IN \A n \in Remote, a \in Addr :
       LET q == PeerList_make_primary(pl, n, a)
       IN /\ (HasRecord(pl, n) /\ a \notin DOMAIN pl.peers) =>
               Moved(pl, q, n, a) /\ OthersKept(pl, q, n)
          /\ ~PeerList_contains_node(pl, n) => q = pl

=============================================================================
